---- MODULE Spec2Model ----
(***************************************************************************)
(* Model of anax's microservice package (microservice/microservice.go):    *)
(* the upgrade eligibility check, the rollback (stall) check and the       *)
(* resolution of the definition to upgrade to.                             *)
(*                                                                         *)
(* The three functions are queries over a definition, the local store, the *)
(* exchange's answer and the clock.  Each gets a specification whose Init  *)
(* draws these inputs from bounded sets and whose actions call the         *)
(* function and record what it returned in ret.                            *)
(***************************************************************************)
EXTENDS Integers, Sequences, FiniteSets, TLC

VARIABLES
    msdef,        \* the *persistence.MicroserviceDefinition handed to the call
    now,          \* time.Now().Unix(), as the uint64 of line 161
    execTimeout,  \* config.MICROSERVICE_EXEC_TIMEOUT (line 162)
    db,           \* the bolt store: [err, instances, msdefs]
    exch,         \* what exchange.GetMicroservice answers: [err, msdef]
    ret,          \* what the last call returned; NoRet once an input changed
    hist,         \* what GetUpgradeMicroserviceDef returned, call by call,
                  \* while the exchange's answer stayed the same
    events,       \* the messages put on the channel e of GenMicroservicePolicy
    pc,           \* where a call that loops on the exchange stands
    reqs          \* the requests that call has sent to the exchange, in
                  \* order, each with the answer it got

vars == <<msdef, now, execTimeout, db, exch, ret, hist, events, pc, reqs>>

\* No call that loops on the exchange is running and nothing was emitted.
Quiet == events = <<>> /\ pc = "idle" /\ reqs = <<>>

----------------------------------------------------------------------------
\* Bounds of the model.

\* Width of the unsigned integers of the model; the code's are uint64.
UintBits == 3
\* Largest configured execution timeout tried.
MaxTimeout == 2
\* Most microservice instances in the store.
MaxInstances == 2
\* Most microservice definitions in the store.
MaxStoredDefs == 2

UintMod == 2 ^ UintBits
Uint == 0 .. (UintMod - 1)

----------------------------------------------------------------------------
\* Strings.  A version is the sequence of its bytes, since the code orders
\* versions byte by byte; the other strings are only compared for equality.

V_1_0_0 == <<49, 46, 48, 46, 48>>   \* "1.0.0"
V_2_0_0 == <<50, 46, 48, 46, 48>>   \* "2.0.0"
V_10 == <<49, 48>>                  \* "10"

Versions == {V_1_0_0, V_2_0_0, V_10}

\* strings.Compare: -1, 0 or 1 by the first differing byte, a proper prefix
\* being the smaller.
RECURSIVE Compare(_, _)
Compare(a, b) ==
    IF a = <<>> /\ b = <<>> THEN 0
    ELSE IF a = <<>> THEN -1
    ELSE IF b = <<>> THEN 1
    ELSE IF Head(a) < Head(b) THEN -1
    ELSE IF Head(a) > Head(b) THEN 1
    ELSE Compare(Tail(a), Tail(b))

\* a - b on uint64 operands (line 162): the difference wraps at the width.
USub(a, b) == (a - b + UintMod) % UintMod

NoRet == [op |-> "none"]

----------------------------------------------------------------------------
\* The exchange's definition and its conversion (lines 53-114).

SpecRefs == {"gps", "net"}
\* The rest of the exchange's metadata (label, workloads, user inputs, ...).
Contents == {"c1", "c2"}
\* Sharable as the exchange spells it.
Sharables == {"Multiple", ""}

ExchangeDefs ==
    [SpecRef : SpecRefs, Version : Versions, Sharable : Sharables, Content : Contents]

\* strings.ToLower on the spellings above (line 65).
ToLower(s) == IF s = "Multiple" THEN "multiple" ELSE s

\* Metadata that json.Marshal rejects.
Unmarshalable == "unmarshalable"

\* json.Marshal(*ems) (line 106): the fields in the struct's order, and
\* whether it fails (line 107).
Marshal(ems) == <<ems.SpecRef, ems.Version, ems.Sharable, ems.Content>>
MarshalFails(ems) == ems.Content = Unmarshalable

\* sha3.Sum256 (line 109), taken as collision free: a digest is equal to
\* another exactly when the bytes hashed are.
Sum256(serial) == [sha3 |-> serial]

\* ConvertToPersistent: the exchange's fields copied, Sharable normalised,
\* the upgrade fields and the node's own settings at their defaults, and the
\* hash of the marshalled exchange definition.  Id, Archived and
\* UpgradeMsReregisteredTime are left at Go's zero values.  err is the
\* failure of json.Marshal (line 107); the definition returned with it is not
\* to be used (the code returns nil).
ConvertToPersistent(ems, org) ==
    [err |-> MarshalFails(ems),
     def |->
       [Id |-> "",
        SpecRef |-> ems.SpecRef,
        Org |-> org,
        Version |-> ems.Version,
        Content |-> ems.Content,
        Sharable |->
            IF ToLower(ems.Sharable) \notin {"exclusive", "single", "multiple"}
            THEN "exclusive"
            ELSE ToLower(ems.Sharable),
        Archived |-> FALSE,
        UpgradeStartTime |-> 0,
        UpgradeMsUnregisteredTime |-> 0,
        UpgradeAgreementsClearedTime |-> 0,
        UpgradeExecutionStartTime |-> 0,
        UpgradeMsReregisteredTime |-> 0,
        UpgradeFailedTime |-> 0,
        UpgradeNewMsId |-> "",
        Name |-> "",
        UpgradeVersionRange |-> "0.0.0",
        AutoUpgrade |-> FALSE,
        ActiveUpgrade |-> TRUE,
        MetadataHash |-> Sum256(Marshal(ems))]]

\* The definition the node holds when nothing else is said: registered from
\* the exchange under a local id and name.
HomeOrg == "org"
HomeDef ==
    [ConvertToPersistent(
        [SpecRef |-> "gps", Version |-> V_1_0_0, Sharable |-> "", Content |-> "c1"],
        HomeOrg).def
     EXCEPT !.Id = "A", !.Name = "gps"]

EmptyDb == [err |-> FALSE, instances |-> <<>>, msdefs |-> <<>>]
NoExchange == [err |-> TRUE]

----------------------------------------------------------------------------
\* MicroserviceNeedsRollback (lines 155-168).

\* The function with >= for > on line 162.
NeedsRollbackAtTimeout(m) ==
    IF m.UpgradeStartTime = 0 THEN FALSE
    ELSE IF m.UpgradeExecutionStartTime = 0
         THEN USub(now, m.UpgradeStartTime) >= execTimeout
         ELSE FALSE

\* The function without the test of line 158.
NeedsRollbackNoStartTest(m) ==
    IF m.UpgradeExecutionStartTime = 0
    THEN USub(now, m.UpgradeStartTime) > execTimeout
    ELSE FALSE

\* The function without the test of line 160.
NeedsRollbackNoExecTest(m) ==
    IF m.UpgradeStartTime = 0 THEN FALSE
    ELSE USub(now, m.UpgradeStartTime) > execTimeout

\* The function with < for > on line 162.
NeedsRollbackBeforeTimeout(m) ==
    IF m.UpgradeStartTime = 0 THEN FALSE
    ELSE IF m.UpgradeExecutionStartTime = 0
         THEN USub(now, m.UpgradeStartTime) < execTimeout
         ELSE FALSE

MicroserviceNeedsRollback(m) ==
    IF m.UpgradeStartTime = 0 THEN FALSE
    ELSE IF m.UpgradeExecutionStartTime = 0
         THEN USub(now, m.UpgradeStartTime) > execTimeout
         ELSE FALSE

----------------------------------------------------------------------------
\* The rollback check against the clock.

\* Progress timestamps other than the two the check reads: unset or set.
Stamp == {0, 1}

InitRollback ==
    /\ \E st \in Uint, ex \in Uint, un \in Stamp, ac \in Stamp, rr \in Stamp, fl \in Stamp :
         msdef = [HomeDef EXCEPT !.UpgradeStartTime = st,
                                 !.UpgradeExecutionStartTime = ex,
                                 !.UpgradeMsUnregisteredTime = un,
                                 !.UpgradeAgreementsClearedTime = ac,
                                 !.UpgradeMsReregisteredTime = rr,
                                 !.UpgradeFailedTime = fl]
    /\ now \in Uint
    /\ execTimeout \in 0 .. MaxTimeout
    /\ db = EmptyDb
    /\ exch = NoExchange
    /\ ret = NoRet
    /\ hist = <<>>
    /\ Quiet

\* One second passes.
Tick ==
    /\ now + 1 < UintMod
    /\ now' = now + 1
    /\ ret' = NoRet
    /\ UNCHANGED <<msdef, execTimeout, db, exch, hist, events, pc, reqs>>

CallNeedsRollback ==
    /\ ret' = [op |-> "MicroserviceNeedsRollback", val |-> MicroserviceNeedsRollback(msdef)]
    /\ UNCHANGED <<msdef, now, execTimeout, db, exch, hist, events, pc, reqs>>

NextRollback == Tick \/ CallNeedsRollback

SpecRollback == InitRollback /\ [][NextRollback]_vars

RolledBack == ret.op = "MicroserviceNeedsRollback"

\* C1 as stated: the call answers true exactly when execution has not started
\* and now - UpgradeStartTime (the code's unsigned difference) exceeds the
\* timeout.  It fails for a definition that never started an upgrade.
C1_Original ==
    RolledBack =>
        (ret.val <=> (/\ msdef.UpgradeExecutionStartTime = 0
                      /\ USub(now, msdef.UpgradeStartTime) > execTimeout))

\* C1 (amended): MicroserviceNeedsRollback answers true exactly when
\* UpgradeStartTime is nonzero, UpgradeExecutionStartTime is zero and the
\* unsigned 64-bit difference now - UpgradeStartTime exceeds the timeout; for
\* such a started, not yet executing definition it answers false when the
\* difference equals the timeout and true when it is one second more.
C1_NeedsRollbackIff ==
    RolledBack =>
        /\ ret.val <=> (/\ msdef.UpgradeStartTime # 0
                        /\ msdef.UpgradeExecutionStartTime = 0
                        /\ USub(now, msdef.UpgradeStartTime) > execTimeout)
        /\ (/\ msdef.UpgradeStartTime # 0
            /\ msdef.UpgradeExecutionStartTime = 0
            /\ USub(now, msdef.UpgradeStartTime) = execTimeout) => ~ret.val
        /\ (/\ msdef.UpgradeStartTime # 0
            /\ msdef.UpgradeExecutionStartTime = 0
            /\ USub(now, msdef.UpgradeStartTime) = execTimeout + 1) => ret.val

\* The call has answered true one second past the timeout of a started upgrade.
C1_Witness ==
    /\ RolledBack
    /\ ret.val
    /\ msdef.UpgradeStartTime # 0
    /\ msdef.UpgradeExecutionStartTime = 0
    /\ now > msdef.UpgradeStartTime
    /\ now - msdef.UpgradeStartTime = execTimeout + 1

\* C2: MicroserviceNeedsRollback answers false for every definition whose
\* UpgradeStartTime is 0, whatever the other timestamps, the clock and the
\* timeout are.
C2_NeverStartedNoRollback ==
    (RolledBack /\ msdef.UpgradeStartTime = 0) => ~ret.val

\* The call has answered for a never started definition with the clock past
\* the timeout and other timestamps set.
C2_Witness ==
    /\ RolledBack
    /\ msdef.UpgradeStartTime = 0
    /\ msdef.UpgradeExecutionStartTime = 0
    /\ msdef.UpgradeFailedTime # 0
    /\ now > execTimeout
    /\ ~ret.val

----------------------------------------------------------------------------
\* The store's instances and MicroserviceReadyForUpgrade (lines 117-152).

\* Sequences over S of length at most n.
SeqsUpTo(S, n) == UNION {[1 .. k -> S] : k \in 0 .. n}

Agreements == {<<>>, <<"ag1">>}

\* (SpecRef, Version) of the instances in the store.
InstanceKeys == {<<"gps", V_1_0_0>>, <<"gps", V_2_0_0>>, <<"net", V_1_0_0>>}

Instances ==
    {[SpecRef |-> k[1], Version |-> k[2], MicroserviceDefId |-> id,
      Archived |-> ar, AssociatedAgreements |-> ags] :
        k \in InstanceKeys, id \in {"A", "B"}, ar \in BOOLEAN, ags \in Agreements}

\* persistence.FindMicroserviceInstances under AllInstancesMIFilter(url,
\* version) and UnarchivedMIFilter (line 136): an error, or the instances of
\* the store that pass both filters, in the store's order.
FindMicroserviceInstances(d, url, version) ==
    IF d.err
    THEN [err |-> TRUE, list |-> <<>>]
    ELSE [err |-> FALSE,
          list |-> SelectSeq(d.instances,
                     LAMBDA i : i.SpecRef = url /\ i.Version = version /\ ~i.Archived)]

\* The loop of lines 140-146 leaving at the first instance, whatever it is.
HasAgreementsFirstOnly(m, list) ==
    /\ Len(list) > 0
    /\ list[1].MicroserviceDefId = m.Id
    /\ Len(list[1].AssociatedAgreements) > 0

\* The loop of lines 140-146: some instance of this definition has agreements.
HasAgreements(m, list) ==
    \E n \in 1 .. Len(list) :
        /\ list[n].MicroserviceDefId = m.Id
        /\ Len(list[n].AssociatedAgreements) > 0

\* Line 130 with the reregistration test the wrong way round.
UpgradeInProgressReregistered(m) ==
    /\ m.UpgradeStartTime # 0
    /\ m.UpgradeMsReregisteredTime # 0
    /\ m.UpgradeFailedTime = 0

\* Line 130: in the middle of an upgrade.
UpgradeInProgress(m) ==
    /\ m.UpgradeStartTime # 0
    /\ m.UpgradeMsReregisteredTime = 0
    /\ m.UpgradeFailedTime = 0

\* The function going on to "available" when the store fails at line 136.
ReadyForUpgradeFailOpen(m, d) ==
    IF m.Archived THEN FALSE
    ELSE IF ~m.AutoUpgrade THEN FALSE
    ELSE IF UpgradeInProgress(m) THEN FALSE
    ELSE IF ~m.ActiveUpgrade
         THEN LET found == FindMicroserviceInstances(d, m.SpecRef, m.Version)
              IN  IF found.err THEN TRUE
                  ELSE IF HasAgreements(m, found.list) THEN FALSE
                  ELSE TRUE
    ELSE TRUE

\* The function without the AutoUpgrade test of lines 125-127.
ReadyForUpgradeNoAutoTest(m, d) ==
    IF m.Archived THEN FALSE
    ELSE IF UpgradeInProgress(m) THEN FALSE
    ELSE IF ~m.ActiveUpgrade
         THEN LET found == FindMicroserviceInstances(d, m.SpecRef, m.Version)
              IN  IF found.err THEN FALSE
                  ELSE IF HasAgreements(m, found.list) THEN FALSE
                  ELSE TRUE
    ELSE TRUE

\* The function without the test of lines 129-132.
ReadyForUpgradeNoProgressTest(m, d) ==
    IF m.Archived THEN FALSE
    ELSE IF ~m.AutoUpgrade THEN FALSE
    ELSE IF ~m.ActiveUpgrade
         THEN LET found == FindMicroserviceInstances(d, m.SpecRef, m.Version)
              IN  IF found.err THEN FALSE
                  ELSE IF HasAgreements(m, found.list) THEN FALSE
                  ELSE TRUE
    ELSE TRUE

MicroserviceReadyForUpgrade(m, d) ==
    IF m.Archived THEN FALSE
    ELSE IF ~m.AutoUpgrade THEN FALSE
    ELSE IF UpgradeInProgress(m) THEN FALSE
    ELSE IF ~m.ActiveUpgrade
         THEN LET found == FindMicroserviceInstances(d, m.SpecRef, m.Version)
              IN  IF found.err THEN FALSE
                  ELSE IF HasAgreements(m, found.list) THEN FALSE
                  ELSE TRUE
    ELSE TRUE

InitUpgrade ==
    /\ \E ar \in BOOLEAN, au \in BOOLEAN, ac \in BOOLEAN,
          st \in Stamp, rr \in Stamp, fl \in Stamp :
         msdef = [HomeDef EXCEPT !.Archived = ar,
                                 !.AutoUpgrade = au,
                                 !.ActiveUpgrade = ac,
                                 !.UpgradeStartTime = st,
                                 !.UpgradeMsReregisteredTime = rr,
                                 !.UpgradeFailedTime = fl]
    /\ now = 0
    /\ execTimeout = 0
    /\ \E e \in BOOLEAN, is \in SeqsUpTo(Instances, MaxInstances) :
         db = [err |-> e, instances |-> is, msdefs |-> <<>>]
    /\ exch = NoExchange
    /\ ret = NoRet
    /\ hist = <<>>
    /\ Quiet

CallReadyForUpgrade ==
    /\ ret' = [op |-> "MicroserviceReadyForUpgrade",
               val |-> MicroserviceReadyForUpgrade(msdef, db)]
    /\ UNCHANGED <<msdef, now, execTimeout, db, exch, hist, events, pc, reqs>>

NextUpgrade == CallReadyForUpgrade

SpecUpgrade == InitUpgrade /\ [][NextUpgrade]_vars

CalledReady == ret.op = "MicroserviceReadyForUpgrade"

\* C3: whenever the definition has UpgradeStartTime # 0,
\* UpgradeMsReregisteredTime = 0 and UpgradeFailedTime = 0 (an upgrade is in
\* progress), MicroserviceReadyForUpgrade answers false, so an upgrade that
\* is started only on a true answer never overlaps one in progress.
C3_NoOverlappingUpgrade ==
    (/\ CalledReady
     /\ msdef.UpgradeStartTime # 0
     /\ msdef.UpgradeMsReregisteredTime = 0
     /\ msdef.UpgradeFailedTime = 0) => ~ret.val

\* The call has answered for a definition that only the upgrade in progress
\* keeps from being eligible.
C3_Witness ==
    /\ CalledReady
    /\ ~msdef.Archived /\ msdef.AutoUpgrade /\ msdef.ActiveUpgrade
    /\ msdef.UpgradeStartTime # 0
    /\ msdef.UpgradeMsReregisteredTime = 0
    /\ msdef.UpgradeFailedTime = 0
    /\ ~ret.val

\* Some unarchived instance in the store has the definition's SpecRef and
\* Version and a non-empty AssociatedAgreements.
RunningInstanceWithAgreement ==
    \E n \in 1 .. Len(db.instances) :
        /\ db.instances[n].SpecRef = msdef.SpecRef
        /\ db.instances[n].Version = msdef.Version
        /\ ~db.instances[n].Archived
        /\ db.instances[n].AssociatedAgreements # <<>>

\* The same, the instance moreover being bound to the definition by its
\* MicroserviceDefId.
OwnRunningInstanceWithAgreement ==
    \E n \in 1 .. Len(db.instances) :
        /\ db.instances[n].SpecRef = msdef.SpecRef
        /\ db.instances[n].Version = msdef.Version
        /\ ~db.instances[n].Archived
        /\ db.instances[n].MicroserviceDefId = msdef.Id
        /\ db.instances[n].AssociatedAgreements # <<>>

\* C4 as stated: with ActiveUpgrade = false the answer is false whenever a
\* running instance of the definition's (SpecRef, Version) has agreements.
\* It fails when that instance belongs to another definition id.
C4_Original ==
    (CalledReady /\ ~msdef.ActiveUpgrade /\ RunningInstanceWithAgreement) => ~ret.val

\* C4 (amended): with ActiveUpgrade = false, MicroserviceReadyForUpgrade
\* answers false whenever the store holds a running (unarchived) instance of
\* the definition's (SpecRef, Version) whose MicroserviceDefId is the
\* definition's Id and whose AssociatedAgreements is non-empty; it answers
\* true only when no such instance exists.  A running instance of the same
\* (SpecRef, Version) that belongs to another definition id does not count.
C4_OwnAgreementsBlock ==
    (CalledReady /\ ~msdef.ActiveUpgrade) =>
        /\ OwnRunningInstanceWithAgreement => ~ret.val
        /\ ret.val => ~OwnRunningInstanceWithAgreement
        /\ (/\ ~msdef.Archived /\ msdef.AutoUpgrade /\ ~UpgradeInProgress(msdef)
            /\ ~db.err
            /\ ~OwnRunningInstanceWithAgreement) => ret.val

\* The call has answered false only because of the second of two instances,
\* the first being another definition's.
C4_Witness ==
    /\ CalledReady
    /\ ~msdef.Archived /\ msdef.AutoUpgrade /\ ~msdef.ActiveUpgrade
    /\ msdef.UpgradeStartTime = 0
    /\ ~db.err
    /\ Len(db.instances) = 2
    /\ db.instances[1].MicroserviceDefId # msdef.Id
    /\ db.instances[1].AssociatedAgreements # <<>>
    /\ OwnRunningInstanceWithAgreement
    /\ ~ret.val

\* C5: for a definition with ActiveUpgrade = false that is not archived, has
\* AutoUpgrade = true and no upgrade in progress, a store error during the
\* lookup of the instances makes MicroserviceReadyForUpgrade answer false.
C5_FailClosed ==
    (/\ CalledReady
     /\ ~msdef.ActiveUpgrade
     /\ ~msdef.Archived
     /\ msdef.AutoUpgrade
     /\ ~(/\ msdef.UpgradeStartTime # 0
          /\ msdef.UpgradeMsReregisteredTime = 0
          /\ msdef.UpgradeFailedTime = 0)
     /\ db.err) => ~ret.val

\* The call has answered under a failing store that holds no instance with
\* an agreement: only the error keeps the definition from being eligible.
C5_Witness ==
    /\ CalledReady
    /\ ~msdef.ActiveUpgrade /\ ~msdef.Archived /\ msdef.AutoUpgrade
    /\ msdef.UpgradeStartTime = 0
    /\ db.err
    /\ ~RunningInstanceWithAgreement
    /\ ~ret.val

\* C6: MicroserviceReadyForUpgrade answers false for every archived
\* definition and for every definition with AutoUpgrade = false, whatever its
\* other fields and whatever the store holds or fails with.
C6_ArchivedOrManualNeverEligible ==
    (CalledReady /\ (msdef.Archived \/ ~msdef.AutoUpgrade)) => ~ret.val

\* The call has answered for a definition that only AutoUpgrade = false keeps
\* from being eligible.
C6_Witness ==
    /\ CalledReady
    /\ ~msdef.Archived /\ ~msdef.AutoUpgrade /\ msdef.ActiveUpgrade
    /\ msdef.UpgradeStartTime = 0
    /\ ~db.err
    /\ ~ret.val

----------------------------------------------------------------------------
\* GetUpgradeMicroserviceDef (lines 173-209).

NilDef == [nil |-> TRUE]
NoError == "nil"

\* The version ranges tried: the default, another well-formed one that every
\* version of the model satisfies, and a malformed one.
DefaultRange == "0.0.0"
OpenRange == "[1.0.0,INFINITY)"
BadRange == "[1.0.0"
Ranges == {DefaultRange, OpenRange, BadRange}

\* policy.Version_Expression_Factory (line 177): an error for a malformed
\* range, the expression otherwise.
Version_Expression_Factory(range) ==
    IF range = BadRange
    THEN [err |-> TRUE]
    ELSE [err |-> FALSE, expr |-> range]

\* exchange.GetMicroservice (line 179): the exchange's answer for the
\* definition's SpecRef, Org, Arch and range: an error, or the highest
\* version in the range.
GetMicroservice(url, org, expr) == exch

\* persistence.FindMicroserviceDefs under UrlVersionMSFilter(url, version) and
\* ArchivedMSFilter (line 190): an error, or the archived definitions of that
\* url and version, in the store's order.
FindArchivedDefs(d, url, version) ==
    IF d.err
    THEN [err |-> TRUE, list |-> <<>>]
    ELSE [err |-> FALSE,
          list |-> SelectSeq(d.msdefs,
                     LAMBDA ms : ms.SpecRef = url /\ ms.Version = version /\ ms.Archived)]

\* Line 185 with the operands exchanged.
IsOlderReversed(e, m) == Compare(m.Version, e.Version) < 0

\* Line 185: the exchange's version is smaller than the definition's.
IsOlder(e, m) == Compare(e.Version, m.Version) < 0

\* Line 187 without the comparison of the hashes.
IsUnchangedByVersion(e, m, new) == Compare(e.Version, m.Version) = 0

\* Line 187: same version and same hash.
IsUnchanged(e, m, new) ==
    /\ Compare(e.Version, m.Version) = 0
    /\ m.MetadataHash = new.MetadataHash

\* Lines 193-197 looking for the definition's own id, not UpgradeNewMsId.
FailedBeforeOwnId(m, new, list) ==
    \E n \in 1 .. Len(list) :
        /\ m.Id = list[n].Id
        /\ list[n].MetadataHash = new.MetadataHash

\* Lines 193-197: the definition this one was upgraded to before is among
\* the archived ones, with the hash of the new one.
FailedBefore(m, new, list) ==
    \E n \in 1 .. Len(list) :
        /\ m.UpgradeNewMsId = list[n].Id
        /\ list[n].MetadataHash = new.MetadataHash

\* Lines 202-205 carrying the old hash over as well.
CopyFromOldWithHash(new, m) ==
    [new EXCEPT !.Name = m.Name,
                !.UpgradeVersionRange = m.UpgradeVersionRange,
                !.AutoUpgrade = m.AutoUpgrade,
                !.ActiveUpgrade = m.ActiveUpgrade,
                !.MetadataHash = m.MetadataHash]

\* Lines 202-205 without the two flags.
CopyFromOldNoFlags(new, m) ==
    [new EXCEPT !.Name = m.Name,
                !.UpgradeVersionRange = m.UpgradeVersionRange]

\* Lines 202-205: the node's settings copied from the old definition.
CopyFromOld(new, m) ==
    [new EXCEPT !.Name = m.Name,
                !.UpgradeVersionRange = m.UpgradeVersionRange,
                !.AutoUpgrade = m.AutoUpgrade,
                !.ActiveUpgrade = m.ActiveUpgrade]

\* The function going on without the archived definitions when the store
\* fails at line 190.
GetUpgradeIgnoringStoreError(m, d) ==
    LET vExp == Version_Expression_Factory(m.UpgradeVersionRange)
    IN
    IF vExp.err THEN [def |-> NilDef, err |-> "range", asked |-> FALSE]
    ELSE
    LET e == GetMicroservice(m.SpecRef, m.Org, vExp.expr)
    IN
    IF e.err THEN [def |-> NilDef, err |-> "exchange", asked |-> TRUE]
    ELSE
    LET conv == ConvertToPersistent(e.msdef, m.Org)
        new == conv.def
    IN
    IF conv.err THEN [def |-> NilDef, err |-> "convert", asked |-> TRUE]
    ELSE IF IsOlder(e.msdef, m) THEN [def |-> NilDef, err |-> NoError, asked |-> TRUE]
    ELSE IF IsUnchanged(e.msdef, m, new)
         THEN [def |-> NilDef, err |-> NoError, asked |-> TRUE]
    ELSE
    LET found == IF m.UpgradeNewMsId # ""
                 THEN FindArchivedDefs(d, new.SpecRef, new.Version)
                 ELSE [err |-> FALSE, list |-> <<>>]
    IN
    IF FailedBefore(m, new, found.list)
    THEN [def |-> NilDef, err |-> NoError, asked |-> TRUE]
    ELSE [def |-> CopyFromOld(new, m), err |-> NoError, asked |-> TRUE]

\* The result: the definition to upgrade to or nil, the error or nil, and
\* whether the exchange was asked on the way.
GetUpgradeMicroserviceDef(m, d) ==
    LET vExp == Version_Expression_Factory(m.UpgradeVersionRange)
    IN
    IF vExp.err THEN [def |-> NilDef, err |-> "range", asked |-> FALSE]
    ELSE
    LET e == GetMicroservice(m.SpecRef, m.Org, vExp.expr)
    IN
    IF e.err THEN [def |-> NilDef, err |-> "exchange", asked |-> TRUE]
    ELSE
    LET conv == ConvertToPersistent(e.msdef, m.Org)
        new == conv.def
    IN
    IF conv.err THEN [def |-> NilDef, err |-> "convert", asked |-> TRUE]
    ELSE IF IsOlder(e.msdef, m) THEN [def |-> NilDef, err |-> NoError, asked |-> TRUE]
    ELSE IF IsUnchanged(e.msdef, m, new)
         THEN [def |-> NilDef, err |-> NoError, asked |-> TRUE]
    ELSE
    LET found == IF m.UpgradeNewMsId # ""
                 THEN FindArchivedDefs(d, new.SpecRef, new.Version)
                 ELSE [err |-> FALSE, list |-> <<>>]
    IN
    IF found.err THEN [def |-> NilDef, err |-> "store", asked |-> TRUE]
    ELSE IF FailedBefore(m, new, found.list)
         THEN [def |-> NilDef, err |-> NoError, asked |-> TRUE]
    ELSE [def |-> CopyFromOld(new, m), err |-> NoError, asked |-> TRUE]

\* Most calls of GetUpgradeMicroserviceDef followed while the exchange's
\* answer stays the same.
MaxCalls == 2

\* What the exchange can answer for the definition's SpecRef.
ExchangeAnswers ==
    {[err |-> TRUE]} \cup
    {[err |-> FALSE, msdef |-> e] :
        e \in {x \in ExchangeDefs : x.SpecRef = "gps" /\ x.Sharable = ""}} \cup
    {[err |-> FALSE,
      msdef |-> [SpecRef |-> "gps", Version |-> v, Sharable |-> "",
                 Content |-> Unmarshalable]] : v \in Versions}

\* The definitions the store can hold: converted from the exchange once,
\* saved under an id, archived or not.
StoredDefs ==
    {[ConvertToPersistent(e, HomeOrg).def EXCEPT !.Id = id, !.Archived = ar, !.Name = "gps"] :
        e \in {x \in ExchangeDefs :
                 x.SpecRef = "gps" /\ x.Sharable = "" /\ x.Version \in {V_2_0_0, V_10}},
        id \in {"X", "Y"}, ar \in BOOLEAN}

\* The store keys its definitions by id.
DistinctIds(list) ==
    \A i \in 1 .. Len(list), j \in 1 .. Len(list) : i # j => list[i].Id # list[j].Id

\* The node's own settings of a definition: the defaults of the conversion,
\* settings that all differ from the defaults, and a malformed range.
NodeSettings ==
    {[range |-> DefaultRange, auto |-> FALSE, active |-> TRUE],
     [range |-> OpenRange, auto |-> TRUE, active |-> FALSE],
     [range |-> BadRange, auto |-> TRUE, active |-> TRUE]}

InitResolve ==
    /\ \E v \in Versions, c \in Contents, id \in {"", "X"}, set \in NodeSettings :
         msdef = [ConvertToPersistent(
                     [SpecRef |-> "gps", Version |-> v, Sharable |-> "", Content |-> c],
                     HomeOrg).def
                  EXCEPT !.Id = "A", !.Name = "gps", !.UpgradeNewMsId = id,
                         !.UpgradeVersionRange = set.range,
                         !.AutoUpgrade = set.auto,
                         !.ActiveUpgrade = set.active]
    /\ now = 0
    /\ execTimeout = 0
    /\ \E e \in BOOLEAN, ds \in SeqsUpTo(StoredDefs, MaxStoredDefs) :
         /\ DistinctIds(ds)
         /\ db = [err |-> e, instances |-> <<>>, msdefs |-> ds]
    /\ exch \in ExchangeAnswers
    /\ ret = NoRet
    /\ hist = <<>>
    /\ Quiet

CallGetUpgrade ==
    /\ Len(hist) < MaxCalls
    /\ LET r == GetUpgradeMicroserviceDef(msdef, db)
       IN  /\ ret' = [op |-> "GetUpgradeMicroserviceDef", def |-> r.def, err |-> r.err,
                      asked |-> r.asked]
           /\ hist' = Append(hist, [arg |-> msdef, def |-> r.def, err |-> r.err])
    /\ UNCHANGED <<msdef, now, execTimeout, db, exch, events, pc, reqs>>

\* The caller goes on with the definition the call returned.
UseCandidate ==
    /\ ret.op = "GetUpgradeMicroserviceDef"
    /\ ret.def # NilDef
    /\ msdef' = ret.def
    /\ ret' = NoRet
    /\ UNCHANGED <<now, execTimeout, db, exch, hist, events, pc, reqs>>

\* The exchange's answer changes: a publication, a removal, an outage.
ExchangeChange ==
    /\ hist # <<>>
    /\ exch' \in ExchangeAnswers \ {exch}
    /\ ret' = NoRet
    /\ hist' = <<>>
    /\ UNCHANGED <<msdef, now, execTimeout, db, events, pc, reqs>>

NextResolve == CallGetUpgrade \/ UseCandidate \/ ExchangeChange

SpecResolve == InitResolve /\ [][NextResolve]_vars

Resolved == ret.op = "GetUpgradeMicroserviceDef"
NothingToDo == ret.def = NilDef /\ ret.err = NoError

\* The call got as far as the exchange's definition: the range parsed, the
\* exchange answered and its definition was converted.
ExchangeAnswered ==
    /\ msdef.UpgradeVersionRange # BadRange
    /\ ~exch.err
    /\ ~MarshalFails(exch.msdef)

\* The hash the conversion gives the exchange's definition.
CandidateHash == Sum256(Marshal(exch.msdef))

\* The store holds, archived, the definition that msdef was upgraded to
\* before, and it has the hash of the exchange's definition.
FailedUpgradeInStore ==
    \E n \in 1 .. Len(db.msdefs) :
        /\ db.msdefs[n].Archived
        /\ db.msdefs[n].Id = msdef.UpgradeNewMsId
        /\ db.msdefs[n].MetadataHash = CandidateHash

\* C7 as stated, for calls that return no error: of two calls on the same
\* definition under the same answer of the exchange, the second returns
\* (nil, nil).  It fails whenever the first call returns a candidate.
C7_Original ==
    (/\ Len(hist) >= 2
     /\ hist[2].arg = hist[1].arg
     /\ hist[1].err = NoError /\ hist[2].err = NoError) => hist[2].def = NilDef

\* C7 (amended): with the exchange's answer unchanged, a call on the
\* candidate that a first call returned returns (nil, nil); a second call on
\* the same definition returns what the first call returned, so (nil, nil)
\* after a first call that returned (nil, nil) and the same candidate after a
\* first call that returned one.
C7_SecondCallOnCandidate ==
    Len(hist) >= 2 =>
        /\ (hist[1].def # NilDef /\ hist[2].arg = hist[1].def) =>
               (hist[2].def = NilDef /\ hist[2].err = NoError)
        /\ hist[2].arg = hist[1].arg =>
               (hist[2].def = hist[1].def /\ hist[2].err = hist[1].err)

\* A first call returned a candidate of a newer version and the second call
\* was made on that candidate.
C7_Witness ==
    /\ Len(hist) = 2
    /\ hist[1].def # NilDef
    /\ hist[1].def.Version # hist[1].arg.Version
    /\ hist[2].arg = hist[1].def
    /\ hist[2].def = NilDef

\* C8: when UpgradeNewMsId is non-empty and the store yields an archived
\* definition with that id whose MetadataHash is the hash of the exchange's
\* definition, GetUpgradeMicroserviceDef returns (nil, nil): a candidate that
\* failed before is not proposed again while the exchange's content stays.
C8_NoRetryOfFailedUpgrade ==
    (/\ Resolved
     /\ ExchangeAnswered
     /\ msdef.UpgradeNewMsId # ""
     /\ ~db.err
     /\ FailedUpgradeInStore) => NothingToDo

\* The call has returned (nil, nil) for a newer version that only the
\* archived failed upgrade keeps from being proposed.
C8_Witness ==
    /\ Resolved
    /\ ExchangeAnswered
    /\ msdef.UpgradeNewMsId # ""
    /\ ~db.err
    /\ FailedUpgradeInStore
    /\ Compare(exch.msdef.Version, msdef.Version) > 0
    /\ NothingToDo

\* C9: whenever the version the exchange returns is smaller than the
\* definition's under byte-wise string comparison, GetUpgradeMicroserviceDef
\* returns (nil, nil), whatever the hashes and UpgradeNewMsId are; a returned
\* candidate never has a version smaller than the definition's.
C9_NoDowngrade ==
    Resolved =>
        /\ (ExchangeAnswered /\ Compare(exch.msdef.Version, msdef.Version) < 0)
               => NothingToDo
        /\ ret.def # NilDef => Compare(ret.def.Version, msdef.Version) >= 0

\* The call has returned (nil, nil) for the exchange's "10" against the
\* definition's "2.0.0", with other content and a failing store.
C9_Witness ==
    /\ Resolved
    /\ ExchangeAnswered
    /\ msdef.Version = V_2_0_0
    /\ exch.msdef.Version = V_10
    /\ msdef.UpgradeNewMsId # ""
    /\ db.err
    /\ NothingToDo

\* C10: when the exchange returns the definition's version and the hash
\* computed for it equals the definition's MetadataHash,
\* GetUpgradeMicroserviceDef returns (nil, nil); when the version is equal,
\* the hash differs and the candidate is not an upgrade that failed before
\* (no UpgradeNewMsId, or the store yields no archived definition of that id
\* with the candidate's hash), it returns a candidate, of the exchange's
\* version and hash.
C10_MaterialChange ==
    (Resolved /\ ExchangeAnswered /\ exch.msdef.Version = msdef.Version) =>
        /\ CandidateHash = msdef.MetadataHash => NothingToDo
        /\ (/\ CandidateHash # msdef.MetadataHash
            /\ \/ msdef.UpgradeNewMsId = ""
               \/ ~db.err /\ ~FailedUpgradeInStore)
               => /\ ret.def # NilDef
                  /\ ret.err = NoError
                  /\ ret.def.Version = exch.msdef.Version
                  /\ ret.def.MetadataHash = CandidateHash

\* The call has returned a candidate of the definition's own version, the
\* store holding that version archived with another hash under the id of the
\* earlier upgrade.
C10_Witness ==
    /\ Resolved
    /\ ExchangeAnswered
    /\ exch.msdef.Version = msdef.Version
    /\ CandidateHash # msdef.MetadataHash
    /\ msdef.UpgradeNewMsId # ""
    /\ ~db.err
    /\ \E n \in 1 .. Len(db.msdefs) :
          /\ db.msdefs[n].Archived
          /\ db.msdefs[n].Id = msdef.UpgradeNewMsId
          /\ db.msdefs[n].Version = msdef.Version
    /\ ret.def # NilDef

\* C11: every candidate GetUpgradeMicroserviceDef returns has the Name,
\* UpgradeVersionRange, AutoUpgrade and ActiveUpgrade of the old definition,
\* not the defaults of the conversion, and the version, content and
\* MetadataHash of the exchange's definition.
C11_CandidateKeepsNodeSettings ==
    (Resolved /\ ret.def # NilDef) =>
        /\ ret.def.Name = msdef.Name
        /\ ret.def.UpgradeVersionRange = msdef.UpgradeVersionRange
        /\ ret.def.AutoUpgrade = msdef.AutoUpgrade
        /\ ret.def.ActiveUpgrade = msdef.ActiveUpgrade
        /\ ret.def.Version = exch.msdef.Version
        /\ ret.def.Content = exch.msdef.Content
        /\ ret.def.MetadataHash = CandidateHash

\* The call has returned a candidate for an old definition whose four
\* settings all differ from the defaults of the conversion.
C11_Witness ==
    /\ Resolved
    /\ ret.def # NilDef
    /\ msdef.Name # ""
    /\ msdef.UpgradeVersionRange # DefaultRange
    /\ msdef.AutoUpgrade
    /\ ~msdef.ActiveUpgrade
    /\ ret.def.Version # msdef.Version

\* The call reaches the lookup of the archived definitions: the exchange's
\* definition is neither older nor unchanged and UpgradeNewMsId is set.
LooksUpArchived ==
    /\ ExchangeAnswered
    /\ Compare(exch.msdef.Version, msdef.Version) >= 0
    /\ ~(exch.msdef.Version = msdef.Version /\ CandidateHash = msdef.MetadataHash)
    /\ msdef.UpgradeNewMsId # ""

\* C12: GetUpgradeMicroserviceDef swallows no error: a malformed
\* UpgradeVersionRange, a failure of the exchange, a failure of the conversion
\* and a failure of the store during the lookup of the archived definitions
\* each make it return (nil, error), never a candidate and never (nil, nil);
\* a malformed range is reported without any request to the exchange.
C12_ErrorsReturned ==
    Resolved =>
        /\ msdef.UpgradeVersionRange = BadRange =>
               (ret.def = NilDef /\ ret.err = "range" /\ ~ret.asked)
        /\ (msdef.UpgradeVersionRange # BadRange /\ exch.err) =>
               (ret.def = NilDef /\ ret.err = "exchange")
        /\ (msdef.UpgradeVersionRange # BadRange /\ ~exch.err
            /\ MarshalFails(exch.msdef)) =>
               (ret.def = NilDef /\ ret.err = "convert")
        /\ (LooksUpArchived /\ db.err) =>
               (ret.def = NilDef /\ ret.err = "store")
        /\ ret.err # NoError => ret.def = NilDef

\* The call has returned the store's error for a newer version that it would
\* otherwise have proposed.
C12_Witness ==
    /\ Resolved
    /\ LooksUpArchived
    /\ db.err
    /\ exch.msdef.Version # msdef.Version
    /\ ~FailedUpgradeInStore
    /\ ret.def = NilDef
    /\ ret.err = "store"

-----------------------------------------------------------------------------
\* GetRollbackMicroserviceDef (lines 212-226).

MaxArchived == 2

\* persistence.FindMicroserviceDefs under UrlMSFilter(url) and
\* ArchivedMSFilter (line 215): an error, or the archived definitions of that
\* url, in the store's order.
FindArchivedByUrl(d, url) ==
    IF d.err
    THEN [err |-> TRUE, list |-> <<>>]
    ELSE [err |-> FALSE,
          list |-> SelectSeq(d.msdefs, LAMBDA ms : ms.SpecRef = url /\ ms.Archived)]

\* The loop of lines 218-222 going on after a match, so that the last
\* matching definition is the one returned.
LastUpgradedTo(list, id) ==
    LET hits == {i \in 1 .. Len(list) : list[i].UpgradeNewMsId = id}
    IN  IF hits = {} THEN NilDef
        ELSE list[CHOOSE i \in hits : \A j \in hits : j <= i]

\* Lines 217-225: the first definition of the list whose UpgradeNewMsId is
\* id, or nil.
RECURSIVE FirstUpgradedTo(_, _)
FirstUpgradedTo(list, id) ==
    IF list = <<>> THEN NilDef
    ELSE IF Head(list).UpgradeNewMsId = id THEN Head(list)
    ELSE FirstUpgradedTo(Tail(list), id)

GetRollbackMicroserviceDef(m, d) ==
    LET found == FindArchivedByUrl(d, m.SpecRef)
    IN  IF found.err THEN [def |-> NilDef, err |-> "store"]
        ELSE [def |-> FirstUpgradedTo(found.list, m.Id), err |-> NoError]

\* The definitions of the store: of two urls, archived or not, each naming
\* the definition it was upgraded to, if any.
RollbackStoredDefs ==
    {[HomeDef EXCEPT !.SpecRef = u, !.Id = id, !.Archived = ar, !.UpgradeNewMsId = new] :
        u \in SpecRefs, id \in {"X", "Y", "Z"}, ar \in BOOLEAN, new \in {"", "A", "B"}}

InitRollbackDef ==
    /\ \E id \in {"A", "B"} : msdef = [HomeDef EXCEPT !.Id = id]
    /\ now = 0
    /\ execTimeout = 0
    /\ \E e \in BOOLEAN, ds \in SeqsUpTo(RollbackStoredDefs, MaxArchived) :
         /\ DistinctIds(ds)
         /\ db = [err |-> e, instances |-> <<>>, msdefs |-> ds]
    /\ exch = NoExchange
    /\ ret = NoRet
    /\ hist = <<>>
    /\ Quiet

CallGetRollback ==
    /\ ret = NoRet
    /\ LET r == GetRollbackMicroserviceDef(msdef, db)
       IN  ret' = [op |-> "GetRollbackMicroserviceDef", def |-> r.def, err |-> r.err]
    /\ UNCHANGED <<msdef, now, execTimeout, db, exch, hist, events, pc, reqs>>

NextRollbackDef == CallGetRollback

SpecRollbackDef == InitRollbackDef /\ [][NextRollbackDef]_vars

RolledBackTo == ret.op = "GetRollbackMicroserviceDef"

\* The places in the store of the archived definitions of msdef's SpecRef
\* that were upgraded to msdef.
OldDefs ==
    {i \in 1 .. Len(db.msdefs) :
        /\ db.msdefs[i].Archived
        /\ db.msdefs[i].SpecRef = msdef.SpecRef
        /\ db.msdefs[i].UpgradeNewMsId = msdef.Id}

\* C13: when the lookup succeeds, GetRollbackMicroserviceDef returns an
\* archived definition of the same SpecRef whose UpgradeNewMsId is the given
\* definition's Id, the first in the store's order, whenever the store holds
\* one, and (nil, nil) exactly when it holds none; when the lookup fails it
\* returns (nil, error).
C13_RollbackTarget ==
    RolledBackTo =>
        IF db.err
        THEN ret.def = NilDef /\ ret.err # NoError
        ELSE /\ ret.err = NoError
             /\ (ret.def = NilDef) <=> (OldDefs = {})
             /\ OldDefs # {} =>
                  /\ ret.def = db.msdefs[CHOOSE i \in OldDefs : \A j \in OldDefs : i <= j]
                  /\ ret.def.Archived
                  /\ ret.def.SpecRef = msdef.SpecRef

\* The store's last two definitions are the ones that were upgraded to
\* msdef, and the call has returned the first of the two.
C13_Witness ==
    /\ RolledBackTo
    /\ ~db.err
    /\ Len(db.msdefs) = MaxArchived
    /\ OldDefs = {MaxArchived - 1, MaxArchived}
    /\ ret.def = db.msdefs[MaxArchived - 1]

-----------------------------------------------------------------------------
\* GenMicroservicePolicy (lines 301-399).

MaxAttrs == 2

\* The keys of a property bag.  A bag gives each key a value or Absent.
Keys == {"cpus", "ram", "color"}
Absent == "absent"
EmptyBag == [k \in Keys |-> Absent]
BagLen(bag) == Cardinality({k \in Keys : bag[k] # Absent})

\* strconv.FormatInt(n, 10) (lines 319-320).
FormatInt(n) == ToString(n)

\* The entries of an agreement protocol list: one that
\* policy.ConvertToAgreementProtocolList accepts and one that it rejects.
GoodProtocol == [name |-> "Basic", wellFormed |-> TRUE]
BadProtocol == [name |-> "Basic", wellFormed |-> FALSE]

\* The dynamic values of AgreementProtocolAttributes.Protocols, which is an
\* interface{}: a []interface{} or a value of another type.
ProtocolValues ==
    {[isList |-> TRUE, items |-> <<GoodProtocol>>],
     [isList |-> TRUE, items |-> <<BadProtocol>>],
     [isList |-> FALSE, items |-> <<>>]}

\* The mappings of a PropertyAttributes.
Mappings ==
    {EmptyBag,
     [EmptyBag EXCEPT !["cpus"] = "9"],
     [EmptyBag EXCEPT !["color"] = "red"],
     [EmptyBag EXCEPT !["color"] = "blue"],
     [EmptyBag EXCEPT !["cpus"] = "9", !["color"] = "red"]}

\* The attributes of the store, without their SensorUrls.
AttributeBodies ==
    {[kind |-> "compute", CPUs |-> c, RAM |-> 4] : c \in {1, 2}} \cup
    {[kind |-> "architecture", Architecture |-> a] : a \in {"amd64", "arm"}} \cup
    {[kind |-> "ha", Partners |-> p] : p \in {<<"n1">>, <<"n2">>}} \cup
    {[kind |-> "metering", Tokens |-> t, PerTimeUnit |-> "hour",
      NotificationIntervalS |-> 0] : t \in {1, 2}} \cup
    {[kind |-> "counterparty", Expression |-> x] : x \in {"e1", "e2"}} \cup
    {[kind |-> "property", Mappings |-> mp] : mp \in Mappings} \cup
    {[kind |-> "agreementprotocol", Protocols |-> pr] : pr \in ProtocolValues} \cup
    {[kind |-> "location"]}

\* An attribute is its body and the SensorUrls of its meta data.
Attributes == [body : AttributeBodies, SensorUrls : {<<>>, <<"gps">>}]

\* Lines 303-310: the variables the closure shares with the function.
FreshVars ==
    [policyArch |-> "",
     haPartner |-> <<>>,
     meterPolicy |-> [Tokens |-> 0, PerTimeUnit |-> "", NotificationIntervalS |-> 0],
     counterPartyProperties |-> "",
     properties |-> EmptyBag,
     serviceAgreementProtocols |-> <<>>,
     props |-> EmptyBag,
     panicked |-> FALSE]

\* One turn of the loop of lines 314-348.  The type assertion of line 343
\* panics on a Protocols that is not a []interface{}, which ends the call.
ApplyAttribute(v, attr) ==
    LET a == attr.body
    IN
    IF v.panicked THEN v
    ELSE IF a.kind = "compute"
    THEN [v EXCEPT !.props = [@ EXCEPT !["cpus"] = FormatInt(a.CPUs),
                                       !["ram"] = FormatInt(a.RAM)]]
    ELSE IF a.kind = "architecture"
    THEN [v EXCEPT !.policyArch = a.Architecture]
    ELSE IF a.kind = "ha"
    THEN [v EXCEPT !.haPartner = a.Partners]
    ELSE IF a.kind = "metering"
    THEN [v EXCEPT !.meterPolicy =
              [Tokens |-> a.Tokens, PerTimeUnit |-> a.PerTimeUnit,
               NotificationIntervalS |-> a.NotificationIntervalS]]
    ELSE IF a.kind = "counterparty"
    THEN [v EXCEPT !.counterPartyProperties = a.Expression]
    ELSE IF a.kind = "property"
    THEN [v EXCEPT !.properties = a.Mappings]
    ELSE IF a.kind = "agreementprotocol"
    THEN IF a.Protocols.isList
         THEN [v EXCEPT !.serviceAgreementProtocols = a.Protocols.items]
         ELSE [v EXCEPT !.panicked = TRUE]
    ELSE v

RECURSIVE ApplyAttributes(_, _)
ApplyAttributes(v, attributes) ==
    IF attributes = <<>> THEN v
    ELSE ApplyAttributes(ApplyAttribute(v, Head(attributes)), Tail(attributes))

\* Lines 350-356: the entries of properties are put into props.
AddProperties(v) ==
    IF BagLen(v.properties) > 0
    THEN [v EXCEPT !.props =
              [k \in Keys |-> IF v.properties[k] # Absent THEN v.properties[k] ELSE @[k]]]
    ELSE v

\* The closure of lines 313-357, on the variables it shares.
handleServiceAttributes(v, attributes) ==
    LET after == ApplyAttributes(v, attributes)
    IN  IF after.panicked THEN after ELSE AddProperties(after)

\* persistence.FindApplicableAttributes (line 360): an error, or the
\* attributes without SensorUrls and those whose SensorUrls hold the url, in
\* the store's order.
FindApplicableAttributes(d, url) ==
    IF d.err
    THEN [err |-> TRUE, list |-> <<>>]
    ELSE [err |-> FALSE,
          list |-> SelectSeq(d.attributes,
                     LAMBDA a : \/ a.SensorUrls = <<>>
                                \/ \E i \in 1 .. Len(a.SensorUrls) : a.SensorUrls[i] = url)]

\* policy.ConvertToAgreementProtocolList (line 380): an error on an entry
\* that is not an agreement protocol.
ConvertToAgreementProtocolList(list) ==
    [err |-> \E i \in 1 .. Len(list) : ~list[i].wellFormed,
     list |-> list]

\* policy.GeneratePolicy (line 391): an error when the policy file cannot be
\* written, or the message that carries the policy.
GeneratePolicy(m, v, list, maxAgreements, written) ==
    [err |-> ~written,
     msg |-> [SpecRef |-> m.SpecRef, Org |-> m.Org, Name |-> m.Name, Version |-> m.Version,
              Arch |-> v.policyArch, Properties |-> v.props, HAGroup |-> v.haPartner,
              Meter |-> v.meterPolicy, CounterPartyProperties |-> v.counterPartyProperties,
              AgreementProtocols |-> list, MaxAgreements |-> maxAgreements]]

\* Lines 386-389.
MaxAgreementsOf(m) == IF m.Sharable \in {"single", "multiple"} THEN 2 ELSE 1

\* The outcome of the call: whether it panicked, else the error it returned
\* or nil, and the messages it sent on the channel.
GenMicroservicePolicy(m, d, written) ==
    LET found == FindApplicableAttributes(d, m.SpecRef)
    IN
    IF found.err THEN [panicked |-> FALSE, err |-> "store", sent |-> <<>>]
    ELSE
    LET common_attribs == SelectSeq(found.list, LAMBDA a : Len(a.SensorUrls) = 0)
        specific_attribs == SelectSeq(found.list, LAMBDA a : Len(a.SensorUrls) # 0)
        v == handleServiceAttributes(
                 handleServiceAttributes(FreshVars, common_attribs), specific_attribs)
    IN
    IF v.panicked THEN [panicked |-> TRUE, err |-> NoError, sent |-> <<>>]
    ELSE
    LET conv == ConvertToAgreementProtocolList(v.serviceAgreementProtocols)
    IN
    IF conv.err THEN [panicked |-> FALSE, err |-> "protocols", sent |-> <<>>]
    ELSE
    LET gen == GeneratePolicy(m, v, conv.list, MaxAgreementsOf(m), written)
    IN
    IF gen.err THEN [panicked |-> FALSE, err |-> "generate", sent |-> <<>>]
    ELSE [panicked |-> FALSE, err |-> NoError, sent |-> <<gen.msg>>]

InitPolicy ==
    /\ \E sh \in {"exclusive", "multiple"} : msdef = [HomeDef EXCEPT !.Sharable = sh]
    /\ now = 0
    /\ execTimeout = 0
    /\ \E e \in BOOLEAN, as \in SeqsUpTo(Attributes, MaxAttrs) :
         db = [err |-> e, instances |-> <<>>, msdefs |-> <<>>, attributes |-> as]
    /\ exch = NoExchange
    /\ ret = NoRet
    /\ hist = <<>>
    /\ Quiet

CallGenPolicy ==
    /\ ret = NoRet
    /\ \E written \in BOOLEAN :
         LET r == GenMicroservicePolicy(msdef, db, written)
         IN  /\ ret' = [op |-> "GenMicroservicePolicy", panicked |-> r.panicked,
                        err |-> r.err]
             /\ events' = events \o r.sent
    /\ UNCHANGED <<msdef, now, execTimeout, db, exch, hist, pc, reqs>>

NextPolicy == CallGenPolicy

SpecPolicy == InitPolicy /\ [][NextPolicy]_vars

Generated == ret.op = "GenMicroservicePolicy"
ReturnedNil == Generated /\ ~ret.panicked /\ ret.err = NoError
ReturnedError == Generated /\ ~ret.panicked /\ ret.err # NoError

\* The values that the attributes of a group give to a key of the property
\* bag: by a ComputeAttributes or by the mappings of a PropertyAttributes.
BagValues(group, k) ==
    {FormatInt(group[i].body.CPUs) :
        i \in {j \in 1 .. Len(group) : group[j].body.kind = "compute" /\ k = "cpus"}} \cup
    {FormatInt(group[i].body.RAM) :
        i \in {j \in 1 .. Len(group) : group[j].body.kind = "compute" /\ k = "ram"}} \cup
    {group[i].body.Mappings[k] :
        i \in {j \in 1 .. Len(group) : /\ group[j].body.kind = "property"
                                        /\ group[j].body.Mappings[k] # Absent}}

\* The bodies of a kind in a group.
OfKind(group, kind) ==
    {group[i].body : i \in {j \in 1 .. Len(group) : group[j].body.kind = kind}}

CommonAttribs == SelectSeq(db.attributes, LAMBDA a : a.SensorUrls = <<>>)
SpecificAttribs == SelectSeq(db.attributes, LAMBDA a : a.SensorUrls # <<>>)

\* C14: in the policy GenMicroservicePolicy emits, a key of the property bag
\* and a logical field that both a specific and a common attribute define
\* have a value the specific attributes give; no common value overrides a
\* specific one, whatever the number and order of the attributes.
C14_SpecificWins ==
    ReturnedNil =>
        LET p == events[1]
            C == CommonAttribs
            S == SpecificAttribs
        IN  /\ \A k \in Keys :
                 (BagValues(S, k) # {} /\ BagValues(C, k) # {}) =>
                     p.Properties[k] \in BagValues(S, k)
            /\ (OfKind(S, "architecture") # {} /\ OfKind(C, "architecture") # {}) =>
                 p.Arch \in {a.Architecture : a \in OfKind(S, "architecture")}
            /\ (OfKind(S, "ha") # {} /\ OfKind(C, "ha") # {}) =>
                 p.HAGroup \in {a.Partners : a \in OfKind(S, "ha")}
            /\ (OfKind(S, "metering") # {} /\ OfKind(C, "metering") # {}) =>
                 p.Meter.Tokens \in {a.Tokens : a \in OfKind(S, "metering")}
            /\ (OfKind(S, "counterparty") # {} /\ OfKind(C, "counterparty") # {}) =>
                 p.CounterPartyProperties \in
                     {a.Expression : a \in OfKind(S, "counterparty")}
            /\ (OfKind(S, "agreementprotocol") # {} /\ OfKind(C, "agreementprotocol") # {}) =>
                 p.AgreementProtocols \in
                     {a.Protocols.items : a \in OfKind(S, "agreementprotocol")}

\* An agreement protocol attribute of the store is malformed: its Protocols
\* is not a list, or holds an entry that is not an agreement protocol.
MalformedProtocols ==
    \E a \in OfKind(db.attributes, "agreementprotocol") :
        \/ ~a.Protocols.isList
        \/ \E i \in 1 .. Len(a.Protocols.items) : ~a.Protocols.items[i].wellFormed

\* C15: GenMicroservicePolicy emits no policy on failure: when the attribute
\* store fails or an agreement protocol attribute is malformed the call
\* returns an error and sends no message; a call that returns nil has sent
\* exactly one message and a call that returns an error none.
C15_NoPolicyOnFailure ==
    Generated =>
        /\ (db.err \/ MalformedProtocols) => (ReturnedError /\ events = <<>>)
        /\ ReturnedNil => Len(events) = 1
        /\ ReturnedError => events = <<>>

-----------------------------------------------------------------------------
\* The rollback check with the clock before the start of the upgrade.

\* C18: for a definition with UpgradeStartTime # 0 and
\* UpgradeExecutionStartTime = 0, MicroserviceNeedsRollback answers false
\* whenever the clock has not passed UpgradeStartTime + timeout, also when
\* now is smaller than UpgradeStartTime.
C18_NoRollbackBeforeDeadline ==
    (/\ RolledBack
     /\ msdef.UpgradeStartTime # 0
     /\ msdef.UpgradeExecutionStartTime = 0
     /\ now <= msdef.UpgradeStartTime + execTimeout) => ~ret.val

-----------------------------------------------------------------------------
\* The upgrade of a definition through its phases (the driver that sets the
\* timestamps is outside this file), with the two checks made on the way.

MaxClock == 5

\* The definition's phase, read from its timestamps.
Started(m) == m.UpgradeStartTime # 0
Executing(m) == m.UpgradeExecutionStartTime # 0

InitPhases ==
    /\ \E au \in BOOLEAN : msdef = [HomeDef EXCEPT !.AutoUpgrade = au]
    /\ now = 1
    /\ execTimeout \in 0 .. MaxTimeout
    /\ db = EmptyDb
    /\ exch = NoExchange
    /\ ret = NoRet
    /\ hist = <<>>
    /\ Quiet

\* One second passes, up to the end of the observed time.
TickPhases ==
    /\ now < MaxClock
    /\ now' = now + 1
    /\ ret' = NoRet
    /\ UNCHANGED <<msdef, execTimeout, db, exch, hist, events, pc, reqs>>

\* Stable -> Started.  Upgrades start while the observed time still reaches
\* past their timeout.
StartUpgrade ==
    /\ msdef.UpgradeStartTime = 0
    /\ msdef.UpgradeFailedTime = 0
    /\ now + execTimeout + 1 <= MaxClock
    /\ msdef' = [msdef EXCEPT !.UpgradeStartTime = now]
    /\ ret' = NoRet
    /\ UNCHANGED <<now, execTimeout, db, exch, hist, events, pc, reqs>>

\* Started -> Unregistered.
MsUnregistered ==
    /\ msdef.UpgradeStartTime # 0
    /\ msdef.UpgradeMsUnregisteredTime = 0
    /\ msdef.UpgradeFailedTime = 0
    /\ msdef' = [msdef EXCEPT !.UpgradeMsUnregisteredTime = now]
    /\ ret' = NoRet
    /\ UNCHANGED <<now, execTimeout, db, exch, hist, events, pc, reqs>>

\* Unregistered -> AgreementsCleared.
AgreementsCleared ==
    /\ msdef.UpgradeMsUnregisteredTime # 0
    /\ msdef.UpgradeAgreementsClearedTime = 0
    /\ msdef.UpgradeFailedTime = 0
    /\ msdef' = [msdef EXCEPT !.UpgradeAgreementsClearedTime = now]
    /\ ret' = NoRet
    /\ UNCHANGED <<now, execTimeout, db, exch, hist, events, pc, reqs>>

\* AgreementsCleared -> ExecutionStarted.
ExecutionStarted ==
    /\ msdef.UpgradeAgreementsClearedTime # 0
    /\ msdef.UpgradeExecutionStartTime = 0
    /\ msdef.UpgradeFailedTime = 0
    /\ msdef' = [msdef EXCEPT !.UpgradeExecutionStartTime = now]
    /\ ret' = NoRet
    /\ UNCHANGED <<now, execTimeout, db, exch, hist, events, pc, reqs>>

\* ExecutionStarted -> Reregistered.
MsReregistered ==
    /\ msdef.UpgradeExecutionStartTime # 0
    /\ msdef.UpgradeMsReregisteredTime = 0
    /\ msdef.UpgradeFailedTime = 0
    /\ msdef' = [msdef EXCEPT !.UpgradeMsReregisteredTime = now]
    /\ ret' = NoRet
    /\ UNCHANGED <<now, execTimeout, db, exch, hist, events, pc, reqs>>

\* Any phase of an upgrade -> Failed.
UpgradeFailed ==
    /\ msdef.UpgradeStartTime # 0
    /\ msdef.UpgradeFailedTime = 0
    /\ msdef' = [msdef EXCEPT !.UpgradeFailedTime = now]
    /\ ret' = NoRet
    /\ UNCHANGED <<now, execTimeout, db, exch, hist, events, pc, reqs>>

\* One cycle of the driver asks both checks about the definition as it is.
DriverCycle ==
    /\ ret' = [op |-> "cycle",
               rollback |-> MicroserviceNeedsRollback(msdef),
               ready |-> MicroserviceReadyForUpgrade(msdef, db)]
    /\ UNCHANGED <<msdef, now, execTimeout, db, exch, hist, events, pc, reqs>>

NextPhases ==
    \/ TickPhases
    \/ StartUpgrade
    \/ MsUnregistered
    \/ AgreementsCleared
    \/ ExecutionStarted
    \/ MsReregistered
    \/ UpgradeFailed
    \/ CallNeedsRollback
    \/ DriverCycle

SpecPhases == InitPhases /\ [][NextPhases]_vars

\* The driver runs periodically and the clock advances: neither the rollback
\* check nor the clock waits forever.
SpecPhasesFair ==
    /\ InitPhases
    /\ [][NextPhases]_vars
    /\ WF_vars(TickPhases)
    /\ WF_vars(CallNeedsRollback)

\* C16: once UpgradeExecutionStartTime is set, MicroserviceNeedsRollback
\* answers false in every later state, however far the clock is past
\* UpgradeStartTime + timeout and whichever later phase is reached; the
\* timestamps are set and never reset.
C16_NoRollbackOnceExecuting ==
    /\ [](Executing(msdef) => [](RolledBack => ~ret.val))
    /\ [][Executing(msdef) => Executing(msdef')]_vars

\* The call has answered false for an executing definition beyond the
\* timeout, after the upgrade failed.
C16_Witness ==
    /\ RolledBack
    /\ ~ret.val
    /\ Executing(msdef)
    /\ msdef.UpgradeFailedTime # 0
    /\ now - msdef.UpgradeStartTime > execTimeout

\* C19: a definition that has started an upgrade and never starts executing
\* is eventually answered true by MicroserviceNeedsRollback under a clock
\* that keeps advancing, and from the first true answer on every answer is
\* true as long as UpgradeExecutionStartTime stays 0.
C19_StallDetected ==
    /\ Started(msdef) ~> (Executing(msdef) \/ (RolledBack /\ ret.val))
    /\ []((RolledBack /\ ret.val) =>
            []((RolledBack /\ ~ret.val) => Executing(msdef)))

\* The call has answered true for a started definition that is not executing.
C19_Witness ==
    /\ RolledBack
    /\ ret.val
    /\ Started(msdef)
    /\ ~Executing(msdef)
    /\ now - msdef.UpgradeStartTime = execTimeout + 1

\* C20: in every state reached by setting the phase timestamps in their
\* order, a definition with UpgradeFailedTime = 0 for which
\* MicroserviceNeedsRollback answers true has MicroserviceReadyForUpgrade
\* answering false.
C20_StalledNotEligible ==
    (/\ ret.op = "cycle"
     /\ msdef.UpgradeFailedTime = 0
     /\ ret.rollback) => ~ret.ready

\* A cycle has found a stalled upgrade of a definition that upgrades
\* automatically.
C20_Witness ==
    /\ ret.op = "cycle"
    /\ msdef.UpgradeFailedTime = 0
    /\ msdef.AutoUpgrade
    /\ msdef.UpgradeMsUnregisteredTime # 0
    /\ ret.rollback
    /\ ~ret.ready

-----------------------------------------------------------------------------
\* getExchangeDevice (lines 273-298) and UnregisterMicroserviceExchange
\* (lines 402-450): one request to the exchange per step.

MaxTransient == 2
MaxRegistered == 2

\* What exchange.InvokeExchange hands back (lines 281, 438): err, tpErr, or
\* neither.
Responses == {"ok", "err", "transient"}

\* Lines 281-288 and 438-447 with the return of the first branch taken for
\* a tpErr as well.
OnResponseNoRetry(resp) ==
    IF resp = "err" THEN "return"
    ELSE IF resp = "transient" THEN "return"
    ELSE "use"

\* Lines 281-288 and 438-447: return on err, sleep and ask again on tpErr,
\* else use the response.
OnResponse(resp) ==
    IF resp = "err" THEN "return"
    ELSE IF resp = "transient" THEN "retry"
    ELSE "use"

DeviceId == "org/node1"
DeviceToken == "token"

\* Lines 279 and 432.
TargetURL == <<"orgs", "org", "nodes", "node1">>

\* persistence.FindExchangeDevice (line 406): an error, nil, or the device.
FindExchangeDevice(d) ==
    IF d.err THEN [err |-> TRUE, dev |-> [nil |-> TRUE]]
    ELSE [err |-> FALSE, dev |-> d.device]

\* Lines 419-424: the registered microservices without those of spec_ref.
ms_put(registered, spec_ref) == SelectSeq(registered, LAMBDA ms : ms.Url # spec_ref)

\* Lines 427-428: the body of the PUT.
CreateDevicePut(token, name, registered) ==
    [token |-> token, name |-> name, RegisteredMicroservices |-> registered]

\* The number of tpErr answers at the end of the requests made.
RECURSIVE TrailingTransient(_)
TrailingTransient(rs) ==
    IF rs = <<>> THEN 0
    ELSE IF rs[Len(rs)].resp # "transient" THEN 0
    ELSE 1 + TrailingTransient(SubSeq(rs, 1, Len(rs) - 1))

\* The exchange answers a request; it does not answer with tpErr more than
\* MaxTransient times in a row.
Answers(rs) ==
    IF TrailingTransient(rs) < MaxTransient THEN Responses ELSE Responses \ {"transient"}

Microservices == [Url : SpecRefs]

InitRetry ==
    /\ \E u \in SpecRefs : msdef = [HomeDef EXCEPT !.SpecRef = u]
    /\ now = 0
    /\ execTimeout = 0
    /\ \E e \in BOOLEAN, dev \in {[nil |-> TRUE], [nil |-> FALSE, Name |-> "node1"]} :
         db = [err |-> e, instances |-> <<>>, msdefs |-> <<>>, device |-> dev]
    /\ \E there \in BOOLEAN, reg \in SeqsUpTo(Microservices, MaxRegistered) :
         exch = [err |-> FALSE, there |-> there, RegisteredMicroservices |-> reg]
    /\ ret = NoRet
    /\ hist = <<>>
    /\ Quiet

UnregisterResult(err) == [op |-> "UnregisterMicroserviceExchange", err |-> err]

\* Lines 402-411: the call of UnregisterMicroserviceExchange(msdef.SpecRef,
\* ...) up to its first request.
CallUnregister ==
    /\ pc = "idle"
    /\ ret = NoRet
    /\ LET found == FindExchangeDevice(db)
       IN  IF found.err
           THEN pc' = "done" /\ ret' = UnregisterResult("store")
           ELSE IF found.dev.nil
           THEN pc' = "done" /\ ret' = UnregisterResult("nodevice")
           ELSE pc' = "get" /\ ret' = ret
    /\ UNCHANGED <<msdef, now, execTimeout, db, exch, hist, events, reqs>>

\* One turn of the loop of getExchangeDevice (lines 280-297) and, on its
\* return, lines 413-416 of the caller.
GetDevice ==
    /\ pc = "get"
    /\ \E resp \in Answers(reqs) :
         /\ reqs' = Append(reqs, [method |-> "GET", url |-> TargetURL,
                                  id |-> DeviceId, token |-> DeviceToken,
                                  body |-> [nil |-> TRUE], resp |-> resp])
         /\ IF OnResponse(resp) = "return"
            THEN pc' = "done" /\ ret' = UnregisterResult("exchange")
            ELSE IF OnResponse(resp) = "retry"
            THEN pc' = "get" /\ ret' = ret
            ELSE IF ~exch.there
            THEN pc' = "done" /\ ret' = UnregisterResult("notinresponse")
            ELSE IF Len(exch.RegisteredMicroservices) = 0
            THEN pc' = "done" /\ ret' = UnregisterResult(NoError)
            ELSE pc' = "put" /\ ret' = ret
    /\ UNCHANGED <<msdef, now, execTimeout, db, exch, hist, events>>

\* One turn of the loop of lines 437-448.
PutDevice ==
    /\ pc = "put"
    /\ \E resp \in Answers(reqs) :
         LET registered == ms_put(exch.RegisteredMicroservices, msdef.SpecRef)
             pdr == CreateDevicePut(DeviceToken, db.device.Name, registered)
         IN  /\ reqs' = Append(reqs, [method |-> "PUT", url |-> TargetURL,
                                      id |-> DeviceId, token |-> DeviceToken,
                                      body |-> pdr, resp |-> resp])
             /\ IF OnResponse(resp) = "return"
                THEN pc' = "done" /\ ret' = UnregisterResult("exchange") /\ exch' = exch
                ELSE IF OnResponse(resp) = "retry"
                THEN pc' = "put" /\ ret' = ret /\ exch' = exch
                ELSE /\ pc' = "done"
                     /\ ret' = UnregisterResult(NoError)
                     /\ exch' = [exch EXCEPT !.RegisteredMicroservices = registered]
    /\ UNCHANGED <<msdef, now, execTimeout, db, hist, events>>

NextRetry == CallUnregister \/ GetDevice \/ PutDevice

\* A request to the exchange returns and the sleep of ten seconds ends: a
\* call that is in one of its loops takes its next turn.
SpecRetry ==
    /\ InitRetry
    /\ [][NextRetry]_vars
    /\ WF_vars(GetDevice)
    /\ WF_vars(PutDevice)

\* Two requests are the same request.
SameRequest(a, b) ==
    /\ a.method = b.method
    /\ a.url = b.url
    /\ a.id = b.id
    /\ a.token = b.token
    /\ a.body = b.body

\* An error that is not transient ends the call with that request, and a
\* transient one is followed by the same request once more.
RetryOnlyOnTransient ==
    \A i \in 1 .. Len(reqs) :
        /\ reqs[i].resp = "err" =>
               /\ i = Len(reqs)
               /\ pc = "done"
               /\ ret = UnregisterResult("exchange")
        /\ reqs[i].resp = "transient" =>
               IF i = Len(reqs)
               THEN pc = (IF reqs[i].method = "GET" THEN "get" ELSE "put")
               ELSE SameRequest(reqs[i], reqs[i + 1])

\* C17: getExchangeDevice and UnregisterMicroserviceExchange ask again only
\* after a transient error: an error that is not transient is returned after
\* that one request with no further request, a transient error is followed
\* by the same request once more, and the call returns when the exchange
\* answers only finitely many times in a row with a transient error.
C17_RetryOnlyOnTransient ==
    /\ []RetryOnlyOnTransient
    /\ (pc \in {"get", "put"}) ~> (pc = "done")

\* The call has returned nil after a transient error in each of its loops.
C17_Witness ==
    /\ pc = "done"
    /\ ret = UnregisterResult(NoError)
    /\ \E i \in 1 .. Len(reqs) : reqs[i].method = "GET" /\ reqs[i].resp = "transient"
    /\ \E i \in 1 .. Len(reqs) : reqs[i].method = "PUT" /\ reqs[i].resp = "transient"

====
